---- MODULE Spec2Model ----
(***************************************************************************)
(* The conversion pipeline controller of Sheet2MIDI: the React hook        *)
(* useSheetMusicProcessor (src/src/hooks/useSheetMusicProcessor.ts).       *)
(*                                                                         *)
(* The hook keeps seven pieces of component state and exports two          *)
(* operations, processFile and reset.  processFile is an async function:   *)
(* it runs synchronously up to its first await and then continues each     *)
(* time the timer of the stage it awaits fires.  Each such run-to-the-     *)
(* next-await piece is one JavaScript task, so it is one atomic action     *)
(* here (the setState calls of one task are applied together).  A call of  *)
(* processFile that has not yet returned is a record in `jobs`; nothing in *)
(* the hook keeps a second call from starting while the first is pending,  *)
(* and reset does not touch pending calls.                                 *)
(*                                                                         *)
(* Time: every pending call waits on one setTimeout timer; `left` is the   *)
(* time until it fires.  The timer that is due first fires first, and time *)
(* passes only by a timer firing or by the delay before a processFile      *)
(* call, so the calls interleave only in the orders their delays allow.    *)
(*                                                                         *)
(* Numbers: times are milliseconds; confidences are hundredths (0.85 is    *)
(* 85); the time multiplier is kept doubled (1.5 is 3) so that every       *)
(* product is an integer.                                                  *)
(***************************************************************************)
EXTENDS Integers, Sequences, FiniteSets, Bags, TLC

VARIABLES
    status,            \* useState<ProcessingStatus>('idle')
    progress,          \* useState(0)
    currentStep,       \* useState('')
    result,            \* useState<ProcessingResult | null>(null)
    error,             \* useState<ProcessingError | null>(null)
    estimatedTime,     \* useState<number>(0)
    detectedElements,  \* useState<Partial<DetectedElements>>({})
    jobs,              \* the pending processFile calls, a bag (they have no order)
    lastOp,            \* history: the operation that made the last step
    discarded,         \* history: reset() was called and no processFile since
    drawn,             \* history: shouldFail and shouldPartialFail as the call
                       \* that ended last drew them (lines 196-197)
    selectedFile,      \* FileUpload: useState<File | null>(null)
    showOptions,       \* FileUpload: useState(false)
    optionsState,      \* FileUpload: useState<ProcessingOptions>({...}), `options`
    isPlaying,         \* MidiPlayer: useState(false)
    currentTime,       \* MidiPlayer: useState(0), in milliseconds
    speed,             \* MidiPlayer: useState(1.0), in hundredths (1.0 is 100)
    loop,              \* MidiPlayer: useState(false)
    intervalActive     \* MidiPlayer: the setInterval timer of intervalRef runs

\* the state of the FileUpload component
fileUploadVars == <<selectedFile, showOptions, optionsState>>

\* the state of the MidiPlayer component
midiPlayerVars == <<isPlaying, currentTime, speed, loop, intervalActive>>

vars == <<status, progress, currentStep, result, error, estimatedTime,
          detectedElements, jobs, lastOp, discarded, drawn,
          selectedFile, showOptions, optionsState,
          isPlaying, currentTime, speed, loop, intervalActive>>

-----------------------------------------------------------------------------
(* Bounds of the model *)

\* pending processFile calls at one time
MaxJobs == 2

-----------------------------------------------------------------------------
(* Values *)

\* null, and a non-null value x, of a `T | null` state
Null == <<>>
Some(x) == <<x>>

\* {} as Partial<DetectedElements>
EmptyElements == [f \in {} |-> 0]

RunningStatuses == {"uploading", "analyzing", "processing", "generating"}
TerminalStatuses == {"success", "partial_success", "error"}
ProcessingStatus == {"idle"} \cup RunningStatuses \cup TerminalStatuses

ProcessingModes == {"standard", "enhanced", "manual_assist"}

ElementFields == {"timeSignature", "keySignature", "tempo", "tempoMarking", "clefs",
                  "noteCount", "measures", "dynamics", "articulations"}

\* Array.prototype.includes on a sequence
Includes(s, x) == \E k \in DOMAIN s : s[k] = x

-----------------------------------------------------------------------------
(* StageCatalog: baseSteps, indexed from 0 as in the source *)

baseSteps ==
    << [step |-> "Uploading and validating file...",          duration |-> 800,  progress |-> 5],
       [step |-> "Preprocessing and image enhancement...",    duration |-> 1200, progress |-> 15],
       [step |-> "Detecting staff lines and layout...",       duration |-> 1500, progress |-> 25],
       [step |-> "Identifying clefs and key signatures...",   duration |-> 1000, progress |-> 35],
       [step |-> "Recognizing note heads and stems...",       duration |-> 2000, progress |-> 55],
       [step |-> "Analyzing rhythmic patterns...",            duration |-> 1500, progress |-> 70],
       [step |-> "Processing dynamics and articulations...",  duration |-> 1000, progress |-> 80],
       [step |-> "Extracting tempo and expression marks...",  duration |-> 800,  progress |-> 85],
       [step |-> "Generating MIDI structure...",              duration |-> 1200, progress |-> 95],
       [step |-> "Finalizing and optimizing...",              duration |-> 500,  progress |-> 100] >>

Step(i) == baseSteps[i + 1]

RECURSIVE SumDurations(_)
SumDurations(n) == IF n = 0 THEN 0 ELSE Step(n - 1).duration + SumDurations(n - 1)

\* timeMultiplier with the two mode factors exchanged
timeMultiplierX2_ModesSwapped(options) ==
    IF options.processingMode = "enhanced" THEN 4
    ELSE IF options.processingMode = "manual_assist" THEN 3
    ELSE 2

\* twice the timeMultiplier of line 93
timeMultiplierX2(options) ==
    IF options.processingMode = "enhanced" THEN 3
    ELSE IF options.processingMode = "manual_assist" THEN 4
    ELSE 2

\* baseSteps[i].duration * timeMultiplier, the delay of lines 108, 132, 162
scaledDuration(i, options) == (Step(i).duration * timeMultiplierX2(options)) \div 2

\* the delay that the call passes to setTimeout for stage i: line 101 for the
\* upload stage, lines 108, 132 and 161 for the others
waitedFor(i, options) ==
    IF i = 0 THEN Step(0).duration ELSE scaledDuration(i, options)

\* the sum of the delays of stages 0 .. n - 1
RECURSIVE SumWaited(_, _)
SumWaited(n, options) ==
    IF n = 0 THEN 0 ELSE waitedFor(n - 1, options) + SumWaited(n - 1, options)

\* baseSteps.reduce((sum, step) => sum + step.duration, 0) * timeMultiplier
totalTime(options) == (SumDurations(Len(baseSteps)) * timeMultiplierX2(options)) \div 2

-----------------------------------------------------------------------------
(* Inputs of processFile *)

\* A file name is a sequence of words; a word of the vocabulary below stands
\* for the characters it is written with, so that case is kept.
LowerWord(w) ==
    CASE w = "BACH" -> "bach"
      [] w = "Bach" -> "bach"
      [] w = "Mozart" -> "mozart"
      [] w = "Scan" -> "scan"
      [] OTHER -> w

\* String.prototype.toLowerCase on a file name
toLowerCase(name) == [k \in DOMAIN name |-> LowerWord(name[k])]

\* String.prototype.includes(signature) on a file name
includes(name, signature) == Includes(name, signature)

FileNames ==
    { <<"Scan">>, <<"BACH">>, <<"mozart", "bach">>, <<"amore">>,
      <<"beethoven", "chopin">>, <<"Mozart", "piccioni">> }

Files == [name : FileNames]

\* Line 167 evaluates file.name.toLowerCase() inside the try block.  For a File
\* with a string name it returns; for an argument whose name cannot be read or
\* lower-cased it throws, and the catch block receives the Error's message.  A
\* message is a text: one that JSON.parse rejects (the TypeError text for a
\* missing name), or the JSON text of some value, here of the object {}.
ThrownMessages ==
    { [json |-> FALSE,
       text |-> "Cannot read properties of undefined (reading 'toLowerCase')"],
      [json |-> TRUE, value |-> [f \in {} |-> 0]] }

\* arguments for which line 167 throws an Error with the message `thrown`
ThrowingFiles == [thrown : ThrownMessages]

\* file.name.toLowerCase() throws
nameThrows(file) == "thrown" \in DOMAIN file

\* preferredTempo is optional: absent, 0 (falsy) or a positive tempo
ProcessingOptions ==
    [processingMode : ProcessingModes]
    \cup [processingMode : ProcessingModes, preferredTempo : {0, 90}]

\* the inputs of the calls made in any state and overlapping (Spec)
HookFiles == [name : { <<"Scan">>, <<"BACH">> }]

HookOptions == [processingMode : ProcessingModes]

\* <<Math.floor(Math.random() * 200), Math.floor(Math.random() * 32)>> of
\* lines 139-140: the pairs drawn in the model (least and greatest values)
RandomDraws == { <<0, 0>>, <<199, 31>> }

\* the time between the previous step and a processFile call made while
\* another call is pending: the values drawn in the model
CallDelays == {0, 300}

\* Math.random() * 0.3 + 0.1 of line 233, in hundredths: the values drawn in
\* the model (the least value, and one just under the open upper end 0.4)
ErrorConfidenceDraws == {10, 39}

-----------------------------------------------------------------------------
(* ElementAccumulator: setDetectedElements(prev => ({...prev, ...partial})) *)

\* a merge that keeps only the new fields: setDetectedElements(partial)
Merge_Replace(prev, partial) == partial

Merge(prev, partial) ==
    [f \in (DOMAIN prev) \cup (DOMAIN partial) |->
        IF f \in DOMAIN partial THEN partial[f] ELSE prev[f]]

\* options.preferredTempo ?? 120: the default only for an absent tempo
preferredTempoOr120_Nullish(options) ==
    IF "preferredTempo" \in DOMAIN options
    THEN options.preferredTempo
    ELSE 120

\* options.preferredTempo || 120
preferredTempoOr120(options) ==
    IF "preferredTempo" \in DOMAIN options /\ options.preferredTempo # 0
    THEN options.preferredTempo
    ELSE 120

\* stage contributions in which stage 2 sets clefs in a later update than
\* timeSignature, one that this step does not include
StageElements_ClefsLater(i, options, random) ==
    CASE i = 2 -> [timeSignature |-> "4/4"]
      [] i = 3 -> [keySignature |-> "C Major", tempo |-> preferredTempoOr120(options)]
      [] i = 5 -> [noteCount |-> random[1] + 50, measures |-> random[2] + 16]
      [] i = 6 -> [dynamics |-> <<"p", "mf", "f">>,
                   articulations |-> <<"staccato", "legato">>]
      [] i = 7 -> [tempoMarking |-> "Moderato"]
      [] OTHER -> EmptyElements

\* what catalog stage i contributes (lines 112-125 and 136-155); random holds
\* the two draws of stage 5
StageElements(i, options, random) ==
    CASE i = 2 -> [timeSignature |-> "4/4", clefs |-> <<"Treble", "Bass">>]
      [] i = 3 -> [keySignature |-> "C Major", tempo |-> preferredTempoOr120(options)]
      [] i = 5 -> [noteCount |-> random[1] + 50, measures |-> random[2] + 16]
      [] i = 6 -> [dynamics |-> <<"p", "mf", "f">>,
                   articulations |-> <<"staccato", "legato">>]
      [] i = 7 -> [tempoMarking |-> "Moderato"]
      [] OTHER -> EmptyElements

-----------------------------------------------------------------------------
(* Finalization: lines 166-291 *)

\* the pattern matching without the branch of lines 182-185
Recognize_NoBach(fileName) ==
    IF includes(fileName, "amore") \/ includes(fileName, "piccioni")
    THEN [title |-> "Amore Mio Aiutami", composer |-> "Piero Piccioni", confidence |-> 95]
    ELSE IF includes(fileName, "mozart")
    THEN [title |-> "Piano Sonata", composer |-> "Wolfgang Amadeus Mozart", confidence |-> 92]
    ELSE IF includes(fileName, "chopin")
    THEN [title |-> "Nocturne", composer |-> "Frederic Chopin", confidence |-> 88]
    ELSE IF includes(fileName, "beethoven")
    THEN [title |-> "Piano Sonata", composer |-> "Ludwig van Beethoven", confidence |-> 91]
    ELSE [title |-> "Sheet Music", composer |-> "Unknown", confidence |-> 85]

\* the pattern matching with the bach test moved before the mozart test
Recognize_BachBeforeMozart(fileName) ==
    IF includes(fileName, "amore") \/ includes(fileName, "piccioni")
    THEN [title |-> "Amore Mio Aiutami", composer |-> "Piero Piccioni", confidence |-> 95]
    ELSE IF includes(fileName, "bach")
    THEN [title |-> "Two-Part Invention", composer |-> "Johann Sebastian Bach", confidence |-> 90]
    ELSE IF includes(fileName, "mozart")
    THEN [title |-> "Piano Sonata", composer |-> "Wolfgang Amadeus Mozart", confidence |-> 92]
    ELSE IF includes(fileName, "chopin")
    THEN [title |-> "Nocturne", composer |-> "Frederic Chopin", confidence |-> 88]
    ELSE IF includes(fileName, "beethoven")
    THEN [title |-> "Piano Sonata", composer |-> "Ludwig van Beethoven", confidence |-> 91]
    ELSE [title |-> "Sheet Music", composer |-> "Unknown", confidence |-> 85]

\* the pattern matching of lines 167-193 on the lower-cased file name
\* (the composer of line 187 is written here without its accents)
Recognize(fileName) ==
    IF includes(fileName, "amore") \/ includes(fileName, "piccioni")
    THEN [title |-> "Amore Mio Aiutami", composer |-> "Piero Piccioni", confidence |-> 95]
    ELSE IF includes(fileName, "mozart")
    THEN [title |-> "Piano Sonata", composer |-> "Wolfgang Amadeus Mozart", confidence |-> 92]
    ELSE IF includes(fileName, "bach")
    THEN [title |-> "Two-Part Invention", composer |-> "Johann Sebastian Bach", confidence |-> 90]
    ELSE IF includes(fileName, "chopin")
    THEN [title |-> "Nocturne", composer |-> "Frederic Chopin", confidence |-> 88]
    ELSE IF includes(fileName, "beethoven")
    THEN [title |-> "Piano Sonata", composer |-> "Ludwig van Beethoven", confidence |-> 91]
    ELSE [title |-> "Sheet Music", composer |-> "Unknown", confidence |-> 85]

\* the errorTypes table of lines 200-228
errorTypes ==
    << [type |-> "blur",
        message |-> "Image resolution too low for accurate note recognition",
        suggestions |-> << "Try scanning at 300 DPI or higher",
                           "Ensure good lighting when photographing",
                           "Use a flatbed scanner for best results" >>],
       [type |-> "notation",
        message |-> "Complex notation style not fully supported",
        suggestions |-> << "Try using standard notation without extensive markings",
                           "Consider using enhanced processing mode",
                           "Manual assistance mode may help with complex scores" >>],
       [type |-> "handwritten",
        message |-> "Handwritten notation detected - accuracy significantly reduced",
        suggestions |-> << "Use printed or engraved sheet music for best results",
                           "Try enhanced processing mode for handwritten scores",
                           "Consider manual correction of detected notes" >>] >>

\* The text of an Error message: either the JSON text of a value or other text.
JSONstringify(value) == [json |-> TRUE, value |-> value]

\* JSON.parse either returns the value a JSON text denotes or throws
JSONparseThrows(text) == ~text.json
JSONparse(text) == text.value

\* a catch block that takes no message for the JSON text of a ProcessingError
errorData_AlwaysUnknown(message) ==
    [type |-> "unknown",
     message |-> IF JSONparseThrows(message) THEN message.text ELSE "",
     suggestions |-> <<"Try a different file", "Check file format and quality">>,
     confidence |-> 10]

\* a catch block whose fallback carries no suggestion
errorData_NoFallbackSuggestions(message) ==
    IF JSONparseThrows(message)
    THEN [type |-> "unknown", message |-> message.text,
          suggestions |-> << >>,
          confidence |-> 10]
    ELSE JSONparse(message)

\* a catch block whose fallback has confidence 1.0
errorData_FallbackCertain(message) ==
    IF JSONparseThrows(message)
    THEN [type |-> "unknown", message |-> message.text,
          suggestions |-> <<"Try a different file", "Check file format and quality">>,
          confidence |-> 100]
    ELSE JSONparse(message)

\* the catch block of lines 293-305: the ProcessingError made from a thrown Error
errorData(message) ==
    IF JSONparseThrows(message)
    THEN [type |-> "unknown", message |-> message.text,
          suggestions |-> <<"Try a different file", "Check file format and quality">>,
          confidence |-> 10]
    ELSE JSONparse(message)

\* The `detectedElements` that processFile reads at lines 243-280 is the binding
\* of the render that created the callback.  useCallback(..., []) (line 310)
\* keeps the callback of the first render, whose binding is the initial state
\* {} of line 68, whatever setDetectedElements has stored since.
closureDetectedElements == EmptyElements

\* detectedElements.noteCount || 100
noteCountOr100(elements) ==
    IF "noteCount" \in DOMAIN elements /\ elements.noteCount # 0
    THEN elements.noteCount
    ELSE 100

\* Math.floor(n * 0.6) and Math.floor(n * 0.4); for 0 <= n < 400 the double
\* products floor to the same integers as the exact ones
Floor60(n) == (n * 6) \div 10
Floor40(n) == (n * 4) \div 10

\* detectedElements.clefs?.includes('Bass')
clefsIncludeBass(elements) ==
    "clefs" \in DOMAIN elements /\ Includes(elements.clefs, "Bass")

\* lines 238-254
tracks(elements) ==
    << [name |-> "Treble Clef", instrument |-> "Piano", clef |-> "Treble",
        noteCount |-> Floor60(noteCountOr100(elements))] >>
    \o IF clefsIncludeBass(elements)
       THEN << [name |-> "Bass Clef", instrument |-> "Piano", clef |-> "Bass",
                noteCount |-> Floor40(noteCountOr100(elements))] >>
       ELSE << >>

\* A title as the string of its characters: the literals of lines 169-190
Characters(title) ==
    CASE title = "Amore Mio Aiutami" ->
            <<"A", "m", "o", "r", "e", " ", "M", "i", "o",
               " ", "A", "i", "u", "t", "a", "m", "i">>
      [] title = "Piano Sonata" ->
            <<"P", "i", "a", "n", "o", " ", "S", "o", "n",
               "a", "t", "a">>
      [] title = "Two-Part Invention" ->
            <<"T", "w", "o", "-", "P", "a", "r", "t", " ",
               "I", "n", "v", "e", "n", "t", "i", "o", "n">>
      [] title = "Nocturne" ->
            <<"N", "o", "c", "t", "u", "r", "n", "e">>
      [] title = "Sheet Music" ->
            <<"S", "h", "e", "e", "t", " ", "M", "u", "s",
               "i", "c">>

\* the letters that String.prototype.toLowerCase changes in these strings,
\* and what it changes them to
UpperCaseLetters ==
    <<"A", "B", "C", "D", "E", "F", "G", "H", "I", "J", "K", "L", "M",
      "N", "O", "P", "Q", "R", "S", "T", "U", "V", "W", "X", "Y",
      "Z">>

LowerCaseLetters ==
    <<"a", "b", "c", "d", "e", "f", "g", "h", "i", "j", "k", "l", "m",
      "n", "o", "p", "q", "r", "s", "t", "u", "v", "w", "x", "y",
      "z">>

\* toLowerCase on one character, and on a string of characters
charToLowerCase(c) ==
    IF \E k \in DOMAIN UpperCaseLetters : UpperCaseLetters[k] = c
    THEN LowerCaseLetters[CHOOSE k \in DOMAIN UpperCaseLetters : UpperCaseLetters[k] = c]
    ELSE c

stringToLowerCase(string) == [k \in DOMAIN string |-> charToLowerCase(string[k])]

\* the characters the class [a-z0-9] matches
AlphaNumeric ==
    {LowerCaseLetters[k] : k \in DOMAIN LowerCaseLetters}
    \cup {"0", "1", "2", "3", "4", "5", "6", "7", "8", "9"}

\* replace(/[^a-z0-9]/, '-') without the g flag: only the first match
replaceNonAlphaNumeric_FirstOnly(string) ==
    [k \in DOMAIN string |->
        IF /\ string[k] \notin AlphaNumeric
           /\ \A j \in 1 .. k - 1 : string[j] \in AlphaNumeric
        THEN "-"
        ELSE string[k]]

\* replace(/[^a-z0-9]/g, '-')
replaceNonAlphaNumeric(string) ==
    [k \in DOMAIN string |->
        IF string[k] \in AlphaNumeric THEN string[k] ELSE "-"]

\* `${title.toLowerCase().replace(/[^a-z0-9]/g, '-')}.mid` (line 274)
midFileName(title) ==
    replaceNonAlphaNumeric(stringToLowerCase(Characters(title)))
    \o <<".", "m", "i", "d">>

\* finalResult without the reduction of lines 284-289
finalResult_NoReduction(file, shouldPartialFail) ==
    LET r == Recognize(toLowerCase(file.name)) IN
    [fileName |-> midFileName(r.title),
     title |-> r.title,
     composer |-> r.composer,
     confidence |-> r.confidence,
     detectedElements |-> closureDetectedElements,
     metadata |-> [title |-> r.title, composer |-> r.composer,
                   software |-> "Sheet2MIDI v2.0",
                   tracks |-> tracks(closureDetectedElements)]]

\* lines 256-291; processingDate, the copyright year and the random bytes of
\* midiData come from the clock and Math.random and are left out
finalResult(file, shouldPartialFail) ==
    LET r == Recognize(toLowerCase(file.name)) IN
    [fileName |-> midFileName(r.title),
     title |-> r.title,
     composer |-> r.composer,
     confidence |-> IF shouldPartialFail THEN 65 ELSE r.confidence,
     detectedElements |-> closureDetectedElements,
     metadata |-> [title |-> r.title, composer |-> r.composer,
                   software |-> "Sheet2MIDI v2.0",
                   tracks |-> tracks(closureDetectedElements)]]

-----------------------------------------------------------------------------
(* The state after construction: the useState initial values *)

Init ==
    /\ status = "idle"
    /\ progress = 0
    /\ currentStep = ""
    /\ result = Null
    /\ error = Null
    /\ estimatedTime = 0
    /\ detectedElements = EmptyElements
    /\ jobs = EmptyBag
    /\ lastOp = "init"
    /\ discarded = FALSE
    /\ drawn = Null
    /\ selectedFile = Null
    /\ showOptions = FALSE
    /\ optionsState = [processingMode |-> "standard"]
    /\ isPlaying = FALSE
    /\ currentTime = 0
    /\ speed = 100
    /\ loop = FALSE
    /\ intervalActive = FALSE

-----------------------------------------------------------------------------
(* Operations *)

Pending == BagToSet(jobs)

\* the pending calls after d milliseconds in which no timer fires
Elapse(pending, d) ==
    [r \in {[x EXCEPT !.left = @ - d] : x \in BagToSet(pending)} |->
        CopiesIn([r EXCEPT !.left = @ + d], pending)]

\* the timer of `job` is due: no pending timer is due earlier
Due(job) == \A other \in Pending : job.left <= other.left

\* the timer fires and the call awaits the same stage again
Advance_SameStage(job, i, delay) ==
    Elapse(jobs (-) SetToBag({job}), job.left)
        (+) SetToBag({[job EXCEPT !.left = delay]})

\* the timer of `job` fires and the call goes on to await stage i for `delay`
Advance(job, i, delay) ==
    Elapse(jobs (-) SetToBag({job}), job.left)
        (+) SetToBag({[job EXCEPT !.pc = i, !.left = delay]})

\* the timer of `job` fires and the call returns
Return(job) == Elapse(jobs (-) SetToBag({job}), job.left)

\* processFile without its setError(null) of line 73
processFile_KeepsError(file, options, delay) ==
    /\ BagCardinality(jobs) < MaxJobs
    /\ \A other \in Pending : delay <= other.left
    /\ jobs = EmptyBag => delay = 0
    /\ status' = "uploading"
    /\ progress' = 0
    /\ result' = Null
    /\ detectedElements' = EmptyElements
    /\ estimatedTime' = totalTime(options)
    /\ jobs' = Elapse(jobs, delay)
                  (+) SetToBag({[pc |-> 0, file |-> file, options |-> options,
                                 left |-> Step(0).duration]})
    /\ lastOp' = "processFile"
    /\ discarded' = FALSE
    /\ drawn' = Null
    /\ UNCHANGED <<currentStep, error>>

\* processFile up to its first await (lines 70-101), called `delay`
\* milliseconds after the previous step
processFile(file, options, delay) ==
    /\ BagCardinality(jobs) < MaxJobs
    /\ \A other \in Pending : delay <= other.left
    /\ jobs = EmptyBag => delay = 0
    /\ status' = "uploading"
    /\ progress' = 0
    /\ error' = Null
    /\ result' = Null
    /\ detectedElements' = EmptyElements
    /\ estimatedTime' = totalTime(options)
    /\ jobs' = Elapse(jobs, delay)
                  (+) SetToBag({[pc |-> 0, file |-> file, options |-> options,
                                 left |-> Step(0).duration]})
    /\ lastOp' = "processFile"
    /\ discarded' = FALSE
    /\ drawn' = Null
    /\ UNCHANGED currentStep

\* reset without its setEstimatedTime(0)
reset_KeepsEstimatedTime ==
    /\ status' = "idle"
    /\ progress' = 0
    /\ currentStep' = ""
    /\ result' = Null
    /\ error' = Null
    /\ detectedElements' = EmptyElements
    /\ lastOp' = "reset"
    /\ discarded' = TRUE
    /\ drawn' = Null
    /\ UNCHANGED <<estimatedTime, jobs>>
    /\ UNCHANGED <<fileUploadVars, midiPlayerVars>>

\* reset (lines 312-320)
reset ==
    /\ status' = "idle"
    /\ progress' = 0
    /\ currentStep' = ""
    /\ result' = Null
    /\ error' = Null
    /\ estimatedTime' = 0
    /\ detectedElements' = EmptyElements
    /\ lastOp' = "reset"
    /\ discarded' = TRUE
    /\ drawn' = Null
    /\ UNCHANGED jobs
    /\ UNCHANGED <<fileUploadVars, midiPlayerVars>>

\* the timer of the upload stage fires (lines 101-108)
UploadDone(job) ==
    /\ job.pc = 0
    /\ Due(job)
    /\ progress' = Step(0).progress
    /\ status' = "analyzing"
    /\ currentStep' = Step(1).step
    /\ jobs' = Advance(job, 1, scaledDuration(1, job.options))
    /\ lastOp' = "stage"
    /\ UNCHANGED <<result, error, estimatedTime, detectedElements, discarded>>
    /\ UNCHANGED <<drawn, fileUploadVars, midiPlayerVars>>

\* the timer of analysis stage i fires (lines 106-132)
AnalysisStageDone(job) ==
    LET i == job.pc IN
    /\ i \in 1 .. 3
    /\ Due(job)
    /\ progress' = Step(i).progress
    /\ detectedElements' = Merge(detectedElements, StageElements(i, job.options, <<0, 0>>))
    /\ IF i < 3
       THEN UNCHANGED status
       ELSE status' = "processing"
    /\ currentStep' = Step(i + 1).step
    /\ jobs' = Advance(job, i + 1, scaledDuration(i + 1, job.options))
    /\ lastOp' = "stage"
    /\ UNCHANGED <<result, error, estimatedTime, discarded>>
    /\ UNCHANGED <<drawn, fileUploadVars, midiPlayerVars>>

\* the timer of processing stage i fires (lines 130-162)
ProcessingStageDone(job) ==
    LET i == job.pc IN
    /\ i \in 4 .. 7
    /\ Due(job)
    /\ progress' = Step(i).progress
    /\ \E random \in RandomDraws :
          detectedElements' = Merge(detectedElements, StageElements(i, job.options, random))
    /\ IF i < 7
       THEN UNCHANGED status
       ELSE status' = "generating"
    /\ currentStep' = Step(i + 1).step
    /\ jobs' = Advance(job, i + 1, scaledDuration(i + 1, job.options))
    /\ lastOp' = "stage"
    /\ UNCHANGED <<result, error, estimatedTime, discarded>>
    /\ UNCHANGED <<drawn, fileUploadVars, midiPlayerVars>>

\* the timer of generation stage 8 fires (lines 160-163)
GenerationStageDone(job) ==
    /\ job.pc = 8
    /\ Due(job)
    /\ progress' = Step(8).progress
    /\ currentStep' = Step(9).step
    /\ jobs' = Advance(job, 9, scaledDuration(9, job.options))
    /\ lastOp' = "stage"
    /\ UNCHANGED <<status, result, error, estimatedTime, detectedElements, discarded>>
    /\ UNCHANGED <<drawn, fileUploadVars, midiPlayerVars>>

\* a finalization in which shouldPartialFail is tested before shouldFail
FinalizeFailure_PartialWins(job) ==
    /\ job.pc = 9
    /\ Due(job)
    /\ ~nameThrows(job.file)
    /\ progress' = Step(9).progress
    /\ \E shouldPartialFail \in BOOLEAN :
          /\ drawn' = Some([shouldFail |-> TRUE, shouldPartialFail |-> shouldPartialFail])
          /\ IF shouldPartialFail
             THEN /\ status' = "partial_success"
                  /\ result' = Some(finalResult(job.file, TRUE))
                  /\ UNCHANGED error
             ELSE /\ status' = "error"
                  /\ \E e \in DOMAIN errorTypes, c \in ErrorConfidenceDraws :
                        error' = Some(errorData(JSONstringify(
                                     [type |-> errorTypes[e].type,
                                      message |-> errorTypes[e].message,
                                      suggestions |-> errorTypes[e].suggestions,
                                      confidence |-> c])))
                  /\ UNCHANGED result
    /\ jobs' = Return(job)
    /\ lastOp' = "finalize"
    /\ UNCHANGED <<currentStep, estimatedTime, detectedElements, discarded>>
    /\ UNCHANGED <<fileUploadVars, midiPlayerVars>>

\* the timer of the last stage fires, shouldFail is drawn true (lines 162-235
\* and the catch block, 293-309)
FinalizeFailure(job) ==
    /\ job.pc = 9
    /\ Due(job)
    /\ ~nameThrows(job.file)
    /\ progress' = Step(9).progress
    /\ \E e \in DOMAIN errorTypes, c \in ErrorConfidenceDraws :
          LET thrown == JSONstringify([type |-> errorTypes[e].type,
                                       message |-> errorTypes[e].message,
                                       suggestions |-> errorTypes[e].suggestions,
                                       confidence |-> c])
          IN error' = Some(errorData(thrown))
    /\ \E shouldPartialFail \in BOOLEAN :
          drawn' = Some([shouldFail |-> TRUE, shouldPartialFail |-> shouldPartialFail])
    /\ status' = "error"
    /\ jobs' = Return(job)
    /\ lastOp' = "finalize"
    /\ UNCHANGED <<currentStep, result, estimatedTime, detectedElements, discarded>>
    /\ UNCHANGED <<fileUploadVars, midiPlayerVars>>

\* the timer of the last stage fires, shouldFail is drawn false (lines 162-197
\* and 237-291)
FinalizeResult(job) ==
    /\ job.pc = 9
    /\ Due(job)
    /\ ~nameThrows(job.file)
    /\ progress' = Step(9).progress
    /\ \E shouldPartialFail \in BOOLEAN :
          /\ status' = IF shouldPartialFail THEN "partial_success" ELSE "success"
          /\ result' = Some(finalResult(job.file, shouldPartialFail))
          /\ drawn' = Some([shouldFail |-> FALSE, shouldPartialFail |-> shouldPartialFail])
    /\ jobs' = Return(job)
    /\ lastOp' = "finalize"
    /\ UNCHANGED <<currentStep, error, estimatedTime, detectedElements, discarded>>
    /\ UNCHANGED <<fileUploadVars, midiPlayerVars>>

\* the timer of the last stage fires and line 167 throws: the catch block
\* (lines 293-309) makes the error from the message
FinalizeThrow(job) ==
    /\ job.pc = 9
    /\ Due(job)
    /\ nameThrows(job.file)
    /\ progress' = Step(9).progress
    /\ error' = Some(errorData(job.file.thrown))
    /\ drawn' = Null
    /\ status' = "error"
    /\ jobs' = Return(job)
    /\ lastOp' = "finalize"
    /\ UNCHANGED <<currentStep, result, estimatedTime, detectedElements, discarded>>
    /\ UNCHANGED <<fileUploadVars, midiPlayerVars>>

Next ==
    \/ \E file \in HookFiles, options \in HookOptions, delay \in CallDelays :
          processFile(file, options, delay) /\ UNCHANGED <<fileUploadVars, midiPlayerVars>>
    \/ reset
    \/ \E job \in Pending : UploadDone(job)
    \/ \E job \in Pending : AnalysisStageDone(job)
    \/ \E job \in Pending : ProcessingStageDone(job)
    \/ \E job \in Pending : GenerationStageDone(job)
    \/ \E job \in Pending : FinalizeFailure(job)
    \/ \E job \in Pending : FinalizeResult(job)

Spec == Init /\ [][Next]_vars

-----------------------------------------------------------------------------
(* The hook as the App and FileUpload components drive it *)

\* an isProcessing that is true in the upload phase only
isProcessing_UploadingOnly == status = "uploading"

\* isProcessing, which App passes to FileUpload
isProcessing == status \in RunningStatuses

\* the condition under which App renders the "Convert Another File" button
resetButtonShown == status \in TerminalStatuses

\* FileUpload's default maxFileSize, 10MB (App passes none)
maxFileSize == 10 * 1024 * 1024

\* the validTypes of validateFile
validTypes ==
    { "image/png", "image/jpeg", "image/jpg", "image/gif",
      "application/pdf", "image/tiff", "image/bmp" }

\* validateFile: its `valid` field (the error text goes to alert only)
validateFile(file) ==
    [valid |-> ~(file.size > maxFileSize) /\ file.type \in validTypes]

\* the MIME types of the formats that the help text lists as supported:
\* images PNG, JPG, JPEG, TIFF, BMP and documents PDF
helpSupportedTypes ==
    { "image/png", "image/jpeg", "image/jpg", "image/tiff", "image/bmp",
      "application/pdf" }

\* the files a user picks or drops: a name, a size in bytes and a MIME type
BrowserFiles ==
    [name : FileNames, size : {maxFileSize}, type : {"image/png", "image/gif"}]
    \cup [name : {<<"Scan">>}, size : {maxFileSize + 1}, type : {"image/png"}]
    \cup [name : {<<"Scan">>}, size : {maxFileSize}, type : {"text/plain"}]

\* what the user types into the tempo field: nothing, 0 or 90
TempoInputs == {"", "0", "90"}

\* parseInt on the texts above
parseInt(text) == IF text = "0" THEN 0 ELSE 90

\* the options dialog is rendered: showOptions && selectedFile
dialogShown == showOptions /\ selectedFile # Null

\* handleFileInput and handleDrop: both validate the first file and either
\* select it and open the dialog or call alert.  The input is disabled and the
\* drop area has pointer-events-none while isProcessing.  (dragOver, which
\* only colours the border, is left out.)
handleFileInput(file) ==
    /\ ~isProcessing
    /\ IF validateFile(file).valid
       THEN /\ selectedFile' = Some(file)
            /\ showOptions' = TRUE
            /\ lastOp' = "select"
       ELSE /\ lastOp' = "alert"
            /\ UNCHANGED <<selectedFile, showOptions>>
    /\ UNCHANGED <<status, progress, currentStep, result, error, estimatedTime,
                   detectedElements, jobs, discarded, drawn, midiPlayerVars,
                   optionsState>>

handleDrop(file) ==
    /\ ~isProcessing
    /\ IF validateFile(file).valid
       THEN /\ selectedFile' = Some(file)
            /\ showOptions' = TRUE
            /\ lastOp' = "select"
       ELSE /\ lastOp' = "alert"
            /\ UNCHANGED <<selectedFile, showOptions>>
    /\ UNCHANGED <<status, progress, currentStep, result, error, estimatedTime,
                   detectedElements, jobs, discarded, drawn, midiPlayerVars,
                   optionsState>>

\* the onChange of the mode select and of the tempo input; the three
\* checkboxes set fields the hook never reads and are left out
setProcessingMode(mode) ==
    /\ dialogShown
    /\ optionsState' = [optionsState EXCEPT !.processingMode = mode]
    /\ lastOp' = "options"
    /\ UNCHANGED <<status, progress, currentStep, result, error, estimatedTime,
                   detectedElements, jobs, discarded, drawn, midiPlayerVars,
                   selectedFile, showOptions>>

setPreferredTempo(text) ==
    /\ dialogShown
    /\ optionsState' =
          IF text = ""
          THEN [processingMode |-> optionsState.processingMode]
          ELSE [processingMode |-> optionsState.processingMode,
                preferredTempo |-> parseInt(text)]
    /\ lastOp' = "options"
    /\ UNCHANGED <<status, progress, currentStep, result, error, estimatedTime,
                   detectedElements, jobs, discarded, drawn, midiPlayerVars,
                   selectedFile, showOptions>>

\* the X and Cancel buttons: setShowOptions(false)
closeOptions ==
    /\ dialogShown
    /\ showOptions' = FALSE
    /\ lastOp' = "cancel"
    /\ UNCHANGED <<status, progress, currentStep, result, error, estimatedTime,
                   detectedElements, jobs, discarded, drawn, midiPlayerVars,
                   selectedFile, optionsState>>

\* the "Process File" button: onFileSelect is the hook's processFile
handleProcess ==
    /\ dialogShown
    /\ processFile(selectedFile[1], optionsState, 0)
    /\ showOptions' = FALSE
    /\ selectedFile' = Null
    /\ UNCHANGED <<optionsState, midiPlayerVars>>

AppNext ==
    \/ \E file \in BrowserFiles : handleFileInput(file)
    \/ \E file \in BrowserFiles : handleDrop(file)
    \/ \E mode \in ProcessingModes : setProcessingMode(mode)
    \/ \E text \in TempoInputs : setPreferredTempo(text)
    \/ closeOptions
    \/ handleProcess
    \/ resetButtonShown /\ reset
    \/ \E job \in Pending : UploadDone(job)
    \/ \E job \in Pending : AnalysisStageDone(job)
    \/ \E job \in Pending : ProcessingStageDone(job)
    \/ \E job \in Pending : GenerationStageDone(job)
    \/ \E job \in Pending : FinalizeFailure(job)
    \/ \E job \in Pending : FinalizeResult(job)

SpecApp == Init /\ [][AppNext]_vars

-----------------------------------------------------------------------------
(* The hook called with any argument, one call at a time *)

ThrowingNext ==
    \/ \E file \in HookFiles \cup ThrowingFiles, options \in HookOptions :
          /\ jobs = EmptyBag
          /\ processFile(file, options, 0)
          /\ UNCHANGED <<fileUploadVars, midiPlayerVars>>
    \/ reset
    \/ \E job \in Pending : UploadDone(job)
    \/ \E job \in Pending : AnalysisStageDone(job)
    \/ \E job \in Pending : ProcessingStageDone(job)
    \/ \E job \in Pending : GenerationStageDone(job)
    \/ \E job \in Pending : FinalizeFailure(job)
    \/ \E job \in Pending : FinalizeResult(job)
    \/ \E job \in Pending : FinalizeThrow(job)

SpecThrowing == Init /\ [][ThrowingNext]_vars

\* setTimeout: the timer of a pending call fires after its delay, so the step
\* of a call whose timer is due is eventually taken
TimersFire ==
    WF_vars(\E job \in Pending :
               \/ UploadDone(job)
               \/ AnalysisStageDone(job)
               \/ ProcessingStageDone(job)
               \/ GenerationStageDone(job)
               \/ FinalizeFailure(job)
               \/ FinalizeResult(job)
               \/ FinalizeThrow(job))

FairSpecThrowing == SpecThrowing /\ TimersFire

-----------------------------------------------------------------------------
(* The ProcessingStatus component, given the hook's status and error *)

\* the error panel: status === 'error' && error
errorPanelShown == status = "error" /\ error # Null

\* the "Confidence: n%" line of the panel: error.confidence < 0.5; an absent
\* confidence is undefined, and undefined < 0.5 is false
lowConfidenceShown ==
    /\ errorPanelShown
    /\ "confidence" \in DOMAIN error[1]
    /\ error[1].confidence < 50

-----------------------------------------------------------------------------
(* The MidiPlayer component (src/src/components/MidiPlayer.tsx)             *)
(*                                                                         *)
(* App mounts the player while result is non-null.  Its handlers read and  *)
(* write only the player's own state, so the player is a state machine of  *)
(* its own.  The effect of lines 45-72 runs after every render in which    *)
(* isPlaying, speed, duration or loop changed: its cleanup clears the      *)
(* interval and it starts a new one exactly when isPlaying, so after each  *)
(* step the interval runs iff isPlaying.  volume and showSettings are read *)
(* by no handler and are left out, and so are downloadMidi and the         *)
(* onNotePlay call of togglePlayback, which leave the player's state       *)
(* alone.  The history variable lastOp is not written by the player.       *)

\* useState(180): the length of the piece in seconds (setDuration is never
\* called)
duration == 180

\* the options of the speed select, in hundredths
Speeds == {50, 75, 100, 125, 150, 200}

\* the positions the range input is dragged to: min is 0 and max is
\* duration * 1000, and the values drawn are the two ends, the middle and a
\* position 125 ms before the end
SeekValues == {0, 90000, 179875, 180000}

\* the state of the hook and of FileUpload, which no player handler writes
appVars ==
    <<status, progress, currentStep, result, error, estimatedTime,
      detectedElements, jobs, discarded, drawn, fileUploadVars>>

Min(a, b) == IF a < b THEN a ELSE b
Max(a, b) == IF a > b THEN a ELSE b

\* the updater of the tick in which the end stops playback but isPlaying is
\* left as it is
tickUpdate_KeepsPlaying(prev) ==
    LET newTime == prev + speed IN
    IF newTime >= duration * 1000
    THEN IF loop
         THEN [currentTime |-> 0, isPlaying |-> isPlaying]
         ELSE [currentTime |-> duration * 1000, isPlaying |-> isPlaying]
    ELSE [currentTime |-> newTime, isPlaying |-> isPlaying]

\* the updater of lines 48-59: the new currentTime, and isPlaying after the
\* setIsPlaying(false) it calls at the end with loop off; 100 * speed is
\* `speed` here, which is kept in hundredths
tickUpdate(prev) ==
    LET newTime == prev + speed IN
    IF newTime >= duration * 1000
    THEN IF loop
         THEN [currentTime |-> 0, isPlaying |-> isPlaying]
         ELSE [currentTime |-> duration * 1000, isPlaying |-> FALSE]
    ELSE [currentTime |-> newTime, isPlaying |-> isPlaying]

\* the interval callback (lines 47-60) fires, every 100 ms while it runs
tick ==
    /\ intervalActive
    /\ currentTime' = tickUpdate(currentTime).currentTime
    /\ isPlaying' = tickUpdate(currentTime).isPlaying
    /\ intervalActive' = isPlaying'
    /\ UNCHANGED <<speed, loop, appVars, lastOp>>

\* lines 74-82
togglePlayback ==
    /\ isPlaying' = ~isPlaying
    /\ intervalActive' = isPlaying'
    /\ UNCHANGED <<currentTime, speed, loop, appVars, lastOp>>

\* lines 84-87: value is the range input's value
handleSeek(value) ==
    /\ currentTime' = value
    /\ UNCHANGED <<isPlaying, speed, loop, intervalActive, appVars, lastOp>>

\* prev => prev + 10000, without the Math.min
skipForwardUpdate_NoMin(prev) == prev + 10000

\* the updaters of lines 90 and 94
skipBackwardUpdate(prev) == Max(0, prev - 10000)
skipForwardUpdate(prev) == Min(duration * 1000, prev + 10000)

skipBackward ==
    /\ currentTime' = skipBackwardUpdate(currentTime)
    /\ UNCHANGED <<isPlaying, speed, loop, intervalActive, appVars, lastOp>>

skipForward ==
    /\ currentTime' = skipForwardUpdate(currentTime)
    /\ UNCHANGED <<isPlaying, speed, loop, intervalActive, appVars, lastOp>>

\* the player's reset button (lines 97-100)
MidiPlayer_reset ==
    /\ currentTime' = 0
    /\ isPlaying' = FALSE
    /\ intervalActive' = FALSE
    /\ UNCHANGED <<speed, loop, appVars, lastOp>>

\* the onChange of the speed select (line 263); the effect restarts the
\* interval when isPlaying
setSpeed(value) ==
    /\ speed' = value
    /\ intervalActive' = isPlaying
    /\ UNCHANGED <<isPlaying, currentTime, loop, appVars, lastOp>>

\* the onClick of the repeat button (line 218)
toggleLoop ==
    /\ loop' = ~loop
    /\ intervalActive' = isPlaying
    /\ UNCHANGED <<isPlaying, currentTime, speed, appVars, lastOp>>

PlayerNext ==
    \/ tick
    \/ togglePlayback
    \/ \E value \in SeekValues : handleSeek(value)
    \/ skipBackward
    \/ skipForward
    \/ MidiPlayer_reset
    \/ \E value \in Speeds : setSpeed(value)
    \/ toggleLoop

\* The state of the hook and of FileUpload in which App shows the player:
\* a file named Scan was processed in standard mode and ended in success
\* (stage 5 having drawn 0 twice)
ScanOptions == [processingMode |-> "standard"]

ScanElements ==
    LET at(i) == StageElements(i, ScanOptions, <<0, 0>>) IN
    Merge(Merge(Merge(Merge(at(2), at(3)), at(5)), at(6)), at(7))

ResultShown ==
    /\ status = "success"
    /\ progress = 100
    /\ currentStep = Step(9).step
    /\ result = Some(finalResult([name |-> <<"Scan">>], FALSE))
    /\ error = Null
    /\ estimatedTime = totalTime(ScanOptions)
    /\ detectedElements = ScanElements
    /\ jobs = EmptyBag
    /\ discarded = FALSE
    /\ drawn = Some([shouldFail |-> FALSE, shouldPartialFail |-> FALSE])
    /\ selectedFile = Null
    /\ showOptions = FALSE
    /\ optionsState = ScanOptions

\* the player as App mounts it: the useState initial values of lines 36-41
PlayerInit ==
    /\ ResultShown
    /\ lastOp = "finalize"
    /\ isPlaying = FALSE
    /\ currentTime = 0
    /\ speed = 100
    /\ loop = FALSE
    /\ intervalActive = FALSE

SpecPlayer == PlayerInit /\ [][PlayerNext]_vars

\* Uninterrupted playback: the user has brought the player to some position,
\* speed and loop setting and pressed play, and then leaves it alone, so
\* that only the interval fires
PlaybackStarts == {0, 170000, 179875, 180000}

PlaybackInit ==
    /\ ResultShown
    /\ lastOp = "finalize"
    /\ isPlaying = TRUE
    /\ intervalActive = TRUE
    /\ currentTime \in PlaybackStarts
    /\ speed \in Speeds
    /\ loop \in BOOLEAN

\* setInterval: while the interval runs its callback keeps firing
IntervalFires == WF_vars(tick)

FairSpecPlayback == PlaybackInit /\ [][tick]_vars /\ IntervalFires

-----------------------------------------------------------------------------
(* The claims *)

SuccessStatuses == {"success", "partial_success"}

\* the last step was a continuation of a pending processFile call
StageStep == lastOp' \in {"stage", "finalize"}

\* C1: exactly one of ProcessingResult and ProcessingError is produced per job:
\* in success or partial_success result is set and error is null, in error
\* error is set and result is null.
C1_ExactlyOneOutcome ==
    /\ status \in SuccessStatuses => (result # Null /\ error = Null)
    /\ status = "error" => (error # Null /\ result = Null)

\* C2: progress never decreases while a job advances, and it is 100 when the
\* job ends in success or partial_success.
C2_ProgressNonDecreasing ==
    [][StageStep =>
          /\ progress' >= progress
          /\ (lastOp' = "finalize" /\ status' \in SuccessStatuses) => progress' = 100]_vars

\* C3: reset() can be called in every state, and right after it status is
\* idle, progress 0, currentStep empty, estimatedTime 0, detectedElements
\* empty, result and error null.
C3_ResetClearsAll ==
    /\ ENABLED reset
    /\ lastOp = "reset" =>
          /\ status = "idle"
          /\ progress = 0
          /\ currentStep = ""
          /\ estimatedTime = 0
          /\ detectedElements = EmptyElements
          /\ result = Null
          /\ error = Null

\* reset() was called while a job was between its stages 5 and 6
C3_Witness == lastOp = "reset" /\ \E job \in Pending : job.pc = 5

\* C4: after reset() the state stays cleared until the next processFile call:
\* no pending stage of the discarded job writes to it.
C4_ResetDiscardsJob ==
    discarded =>
        /\ status = "idle"
        /\ progress = 0
        /\ detectedElements = EmptyElements
        /\ result = Null
        /\ error = Null

\* C5: a processFile call made while a job is pending is rejected: it starts
\* no second job and leaves status, progress, detectedElements, result and
\* error alone.
C5_SubmitRejectedWhileActive ==
    [][(jobs # EmptyBag /\ lastOp' = "processFile") =>
          /\ jobs' = jobs
          /\ UNCHANGED <<status, progress, detectedElements, result, error>>]_vars

PhaseOrder ==
    { <<"uploading", "analyzing">>, <<"analyzing", "processing">>,
      <<"processing", "generating">> }
    \cup ({"generating"} \X TerminalStatuses)

\* C6: the stages of a job move status along uploading, analyzing, processing,
\* generating and then into one terminal status, which no stage changes again;
\* no two jobs run stages at once.
C6_StatusOrder ==
    [][StageStep =>
          /\ status' # status => <<status, status'>> \in PhaseOrder
          /\ BagCardinality(jobs) <= 1]_vars

\* C7: on success or partial_success the metadata has at least two tracks if
\* the accumulated detectedElements contain the clef "Bass", and exactly one
\* otherwise.
C7_TrackDerivation ==
    (lastOp = "finalize" /\ status \in SuccessStatuses) =>
        IF clefsIncludeBass(detectedElements)
        THEN Len(result[1].metadata.tracks) >= 2
        ELSE Len(result[1].metadata.tracks) = 1

\* C8: on success or partial_success the Treble track has floor(0.6 N) notes
\* and a Bass track, when emitted, floor(0.4 N), N being the accumulated
\* noteCount.
C8_TrackNoteCounts ==
    (lastOp = "finalize" /\ status \in SuccessStatuses
        /\ "noteCount" \in DOMAIN detectedElements) =>
        LET t == result[1].metadata.tracks
            N == detectedElements.noteCount
        IN /\ t[1].noteCount = (6 * N) \div 10
           /\ Len(t) >= 2 => t[2].noteCount = (4 * N) \div 10

\* C9: the detectedElements of an emitted result are the accumulated record,
\* with all nine fields set.
C9_ResultElementsComplete ==
    (lastOp = "finalize" /\ status \in SuccessStatuses) =>
        /\ DOMAIN result[1].detectedElements = ElementFields
        /\ result[1].detectedElements = detectedElements

\* C10: estimatedTime is recomputed after every completed stage: it strictly
\* decreases with each stage and is 0 once the last stage has completed.
C10_RemainingDecreases ==
    [][StageStep =>
          /\ estimatedTime' < estimatedTime
          /\ lastOp' = "finalize" => estimatedTime' = 0]_vars

\* C11: the total estimate published when a job starts is the sum of the ten
\* nominal durations, 11500 ms, times the mode multiplier: 11500 for standard,
\* 17250 for enhanced, 23000 for manual_assist.
C11_TotalEstimate ==
    lastOp = "processFile" =>
        \A job \in Pending :
            estimatedTime =
                CASE job.options.processingMode = "standard" -> 11500
                  [] job.options.processingMode = "enhanced" -> 17250
                  [] job.options.processingMode = "manual_assist" -> 23000

\* a job has just started in enhanced mode
C11_Witness ==
    /\ lastOp = "processFile"
    /\ \E job \in Pending : job.options.processingMode = "enhanced"
    /\ estimatedTime = 17250

\* the call whose last timer is due: the one a "finalize" step completes
Finishing(job) == job.pc = 9 /\ Due(job)

\* C12: every emitted result has a confidence between 0 and 1 (0..100 in
\* hundredths); a job that ends in partial_success has confidence 0.65 whatever
\* was recognized, and a job that ends in success has the confidence of the
\* signature lookup for its file name.
C12_ResultConfidence ==
    /\ [](result # Null => result[1].confidence \in 0..100)
    /\ [][ (lastOp' = "finalize" /\ status' \in SuccessStatuses) =>
             \A job \in Pending : Finishing(job) =>
                 result'[1].confidence =
                     IF status' = "partial_success" THEN 65
                     ELSE Recognize(toLowerCase(job.file.name)).confidence ]_vars

\* a job whose file name has a signature with a confidence other than 0.65
\* ended in partial_success
C12_Witness ==
    /\ lastOp = "finalize"
    /\ status = "partial_success"
    /\ result # Null
    /\ result[1].confidence = 65
    /\ result[1].title = "Amore Mio Aiutami"

\* the file name contains the signature, whatever the case of its letters
ContainsSignature(name, signature) ==
    \E k \in DOMAIN name : LowerWord(name[k]) = signature

\* the result of a standard-mode job that ends in success is recognized as Bach
BachResult(job) ==
    (job.options.processingMode = "standard" /\ status' = "success") =>
        /\ result'[1].composer = "Johann Sebastian Bach"
        /\ result'[1].confidence = 90

\* C13 as stated: for every file whose name contains "bach" in any case, a
\* standard-mode job that ends in success has composer Johann Sebastian Bach
\* and confidence 0.90.
C13_BachRecognized ==
    [][ lastOp' = "finalize" =>
          \A job \in Pending :
              (Finishing(job) /\ ContainsSignature(job.file.name, "bach"))
                  => BachResult(job) ]_vars

\* C13 amended: the same for every file whose name contains "bach" and none of
\* the signatures tried before it (amore, piccioni, mozart).
C13_BachRecognizedUnlessEarlierSignature ==
    [][ lastOp' = "finalize" =>
          \A job \in Pending :
              ( /\ Finishing(job)
                /\ ContainsSignature(job.file.name, "bach")
                /\ \A earlier \in {"amore", "piccioni", "mozart"} :
                       ~ContainsSignature(job.file.name, earlier) )
                  => BachResult(job) ]_vars

\* a standard-mode job ended in success with the Bach result; the only file
\* name that gives it is written in capitals
C13_Witness ==
    /\ lastOp = "finalize"
    /\ status = "success"
    /\ estimatedTime = totalTime([processingMode |-> "standard"])
    /\ result # Null
    /\ result[1].composer = "Johann Sebastian Bach"
    /\ result[1].confidence = 90

\* the error is the entry of the errorTypes table for one of the three causes
CanonicalError(e) ==
    \E k \in DOMAIN errorTypes :
        /\ e.type = errorTypes[k].type
        /\ e.message = errorTypes[k].message
        /\ e.suggestions = errorTypes[k].suggestions

IsProcessingError(e) == DOMAIN e = {"type", "message", "suggestions", "confidence"}

C17_ErrorHasSuggestion ==
    (error # Null /\ IsProcessingError(error[1])) =>
        /\ error[1].type \in {"blur", "notation", "handwritten", "unknown"}
        /\ Len(error[1].suggestions) >= 1

\* the unknown fallback has been emitted, with its two suggestions
C17_Witness ==
    /\ status = "error"
    /\ error # Null
    /\ IsProcessingError(error[1])
    /\ error[1].type = "unknown"
    /\ Len(error[1].suggestions) = 2

\* C18: every emitted ProcessingError has a confidence within 0.1 .. 0.4
\* (10..40 in hundredths), hence below 0.5, and ProcessingStatus shows the
\* confidence line for every error it displays.
C18_ErrorConfidenceLow ==
    (error # Null /\ IsProcessingError(error[1])) =>
        /\ error[1].confidence \in 10..40
        /\ error[1].confidence < 50
        /\ errorPanelShown => lowConfidenceShown

\* an error with the largest confidence drawn is displayed with its
\* confidence line
C18_Witness ==
    /\ error # Null
    /\ IsProcessingError(error[1])
    /\ error[1].confidence = 39
    /\ errorPanelShown
    /\ lowConfidenceShown

\* a step of the pending call `job`
JobStep(job) ==
    \/ UploadDone(job)
    \/ AnalysisStageDone(job)
    \/ ProcessingStageDone(job)
    \/ GenerationStageDone(job)
    \/ FinalizeFailure(job)
    \/ FinalizeResult(job)

\* C15: a failure can be raised during any of the ten stages: whatever stage a
\* call is awaiting, its next step may be the one that ends it with status
\* error, leaving the later stages unrun and progress below 100.
C15_FailureAtAnyStage ==
    \A job \in Pending :
        Due(job) => ENABLED (JobStep(job) /\ status' = "error")

\* the fields that the stages a call has completed have set: those of the
\* catalog stages before the one the call is awaiting
FieldsSetBefore(job) ==
    UNION { DOMAIN StageElements(i, job.options, <<0, 0>>) : i \in 0 .. job.pc - 1 }

\* C19: within one job a field, once set, is never unset: the published
\* detectedElements hold every field that the job's earlier stages have set,
\* and a stage step keeps every field there was.
C19_FieldsNeverUnset ==
    /\ [](\A job \in Pending : FieldsSetBefore(job) \subseteq DOMAIN detectedElements)
    /\ [][StageStep => DOMAIN detectedElements \subseteq DOMAIN detectedElements']_vars

\* the status of the phase that catalog stage i belongs to
PhaseStatus(i) ==
    CASE i = 0 -> "uploading"
      [] i \in 1 .. 3 -> "analyzing"
      [] i \in 4 .. 7 -> "processing"
      [] i \in 8 .. 9 -> "generating"

\* the cumulative weights of the ten stages
CumulativeWeight(i) == <<5, 15, 25, 35, 55, 70, 80, 85, 95, 100>>[i + 1]

\* C20: while a job runs, status is that of the phase of the stage it is
\* executing, progress is the cumulative weight of the stage completed last
\* (0 before the first), and progress is 100 only once the last stage has
\* completed and the job has ended.
C20_StatusAndProgressTrackStage ==
    /\ \A job \in Pending :
          /\ status = PhaseStatus(job.pc)
          /\ progress = IF job.pc = 0 THEN 0 ELSE CumulativeWeight(job.pc - 1)
    /\ progress = 100 => (lastOp = "finalize" /\ status \in TerminalStatuses)

\* C21: no stage is retried automatically.  A job that ends in error is gone
\* from the pending calls and only a processFile call adds one; every
\* processFile call starts at the upload stage with status uploading,
\* progress 0, empty detectedElements and null result and error, whatever the
\* state before it.
C21_NoRetryRestartFromUpload ==
    [][ /\ (lastOp' = "finalize" /\ status' = "error") =>
              BagCardinality(jobs') = BagCardinality(jobs) - 1
        /\ BagCardinality(jobs') > BagCardinality(jobs) =>
              /\ lastOp' = "processFile"
              /\ BagCardinality(jobs') = BagCardinality(jobs) + 1
        /\ lastOp' = "processFile" =>
              /\ status' = "uploading"
              /\ progress' = 0
              /\ detectedElements' = EmptyElements
              /\ result' = Null
              /\ error' = Null
              /\ \E job \in BagToSet(jobs') :
                    /\ job.pc = 0
                    /\ job.left = Step(0).duration ]_vars

\* a job was submitted after an earlier job had run all its stages and ended
\* (currentStep is still that job's last label): it is the only pending call
\* and awaits the upload stage
C21_Witness ==
    /\ lastOp = "processFile"
    /\ status = "uploading"
    /\ error = Null
    /\ currentStep = Step(9).step
    /\ BagCardinality(jobs) = 1
    /\ \A job \in Pending : job.pc = 0

\* C22: provided the timers fire, every job started by processFile, in every
\* processing mode, reaches a terminal status and returns; status does not
\* stay in uploading, analyzing, processing or generating for ever.
C22_JobTerminates ==
    /\ \A mode \in ProcessingModes :
          (\E job \in Pending : job.options.processingMode = mode)
              ~> (lastOp = "finalize" /\ status \in TerminalStatuses /\ jobs = EmptyBag)
    /\ (status \in RunningStatuses) ~> (status \in TerminalStatuses)

\* a manual_assist job has run its ten stages and ended
C22_Witness ==
    /\ lastOp = "finalize"
    /\ status \in TerminalStatuses
    /\ estimatedTime = totalTime([processingMode |-> "manual_assist"])
    /\ jobs = EmptyBag

\* C23: currentStep is the label of the stage now executing, for all ten
\* stages: a pending call awaiting stage i shows the label of stage i, and
\* whenever status is uploading currentStep is the label of the upload stage.
C23_CurrentStepIsExecutingStage ==
    /\ \A job \in Pending : currentStep = Step(job.pc).step
    /\ status = "uploading" => currentStep = Step(0).step

\* C24: through App and FileUpload at most one job is ever active.
\* processFile is not triggered while status is uploading, analyzing,
\* processing or generating: the dialog with the "Process File" button is not
\* shown then, and a submission closes it.  reset is triggered only in success,
\* partial_success or error.
C24_OneJobThroughApp ==
    /\ [](BagCardinality(jobs) <= 1)
    /\ [](isProcessing => ~dialogShown)
    /\ [](lastOp = "processFile" => (~showOptions /\ selectedFile = Null))
    /\ [][ /\ lastOp' = "processFile" => (~isProcessing /\ jobs = EmptyBag)
           /\ lastOp' = "reset" => (status \in TerminalStatuses /\ jobs = EmptyBag) ]_vars

\* a second job has been submitted through the dialog after an earlier job
\* ended, without a reset between them, and is the only active one
C24_Witness ==
    /\ lastOp = "processFile"
    /\ isProcessing
    /\ ~discarded
    /\ currentStep = Step(9).step
    /\ BagCardinality(jobs) = 1

\* the file is one that the help text describes as accepted
Supported(file) ==
    /\ file.size <= maxFileSize
    /\ file.type \in helpSupportedTypes

\* C25: a file reaches processFile only if validateFile accepted it, that is,
\* its size is at most maxFileSize and its MIME type is one of the formats the
\* help text lists; a rejected file is not selected, opens no dialog and
\* starts no job.
C25_OnlySupportedFilesProcessed ==
    /\ [](selectedFile # Null => Supported(selectedFile[1]))
    /\ [](\A job \in Pending : Supported(job.file))
    /\ [][lastOp' = "alert" => UNCHANGED <<selectedFile, showOptions, jobs>>]_vars

\* the signatures in the order stated, each with what it decides
SignatureOrder ==
    << [signatures |-> {"amore", "piccioni"}, title |-> "Amore Mio Aiutami",
        composer |-> "Piero Piccioni", confidence |-> 95],
       [signatures |-> {"mozart"}, title |-> "Piano Sonata",
        composer |-> "Wolfgang Amadeus Mozart", confidence |-> 92],
       [signatures |-> {"bach"}, title |-> "Two-Part Invention",
        composer |-> "Johann Sebastian Bach", confidence |-> 90],
       [signatures |-> {"chopin"}, title |-> "Nocturne",
        composer |-> "Frederic Chopin", confidence |-> 88],
       [signatures |-> {"beethoven"}, title |-> "Piano Sonata",
        composer |-> "Ludwig van Beethoven", confidence |-> 91] >>

\* the entries whose signature the name contains
Matching(name) ==
    { k \in DOMAIN SignatureOrder :
        \E signature \in SignatureOrder[k].signatures : ContainsSignature(name, signature) }

\* what the first matching signature decides, or the default
FirstMatch(name) ==
    IF Matching(name) = {}
    THEN [title |-> "Sheet Music", composer |-> "Unknown", confidence |-> 85]
    ELSE LET first == CHOOSE k \in Matching(name) : \A other \in Matching(name) : k <= other
         IN [title |-> SignatureOrder[first].title,
             composer |-> SignatureOrder[first].composer,
             confidence |-> SignatureOrder[first].confidence]

\* C26: title, composer and base confidence of a result are a function of the
\* file name in lower case: the first matching signature in the order
\* amore|piccioni, mozart, bach, chopin, beethoven decides, the default is
\* "Sheet Music" by "Unknown" at 0.85; so two jobs with the same file name
\* derive the same three values.
C26_RecognitionByFirstSignature ==
    [][ (lastOp' = "finalize" /\ status' \in SuccessStatuses) =>
          \A job \in Pending : Finishing(job) =>
              /\ result'[1].title = FirstMatch(job.file.name).title
              /\ result'[1].composer = FirstMatch(job.file.name).composer
              /\ result'[1].metadata.title = FirstMatch(job.file.name).title
              /\ status' = "success" =>
                     result'[1].confidence = FirstMatch(job.file.name).confidence ]_vars

\* the result of a name that contains both "chopin" and "beethoven": Chopin,
\* the earlier signature, although Beethoven's confidence is higher
C26_Witness ==
    /\ lastOp = "finalize"
    /\ status = "success"
    /\ result # Null
    /\ result[1].composer = "Frederic Chopin"
    /\ result[1].confidence = 88

\* the fields that catalog stage i is stated to write
StageFields(i) ==
    CASE i = 2 -> {"timeSignature", "clefs"}
      [] i = 3 -> {"keySignature", "tempo"}
      [] i = 5 -> {"noteCount", "measures"}
      [] i = 6 -> {"dynamics", "articulations"}
      [] i = 7 -> {"tempoMarking"}
      [] OTHER -> {}

\* the step writes the fields in `fields` and leaves every other field as it
\* was: neither added, nor removed, nor changed
WritesOnly(fields) ==
    /\ fields \subseteq DOMAIN detectedElements'
    /\ DOMAIN detectedElements' = DOMAIN detectedElements \cup fields
    /\ \A f \in DOMAIN detectedElements \ fields :
          detectedElements'[f] = detectedElements[f]

\* C27: the step that completes catalog stage i writes the fields of stage i
\* (2: timeSignature, clefs; 3: keySignature, tempo; 5: noteCount, measures;
\* 6: dynamics, articulations; 7: tempoMarking) and leaves every other
\* accumulated field unchanged; stages 0, 1, 4, 8 and 9 change no element.
C27_StageWritesOnlyItsFields ==
    [][ StageStep =>
          \E job \in Pending : Due(job) /\ WritesOnly(StageFields(job.pc)) ]_vars

\* stage 5 has written noteCount and measures over the fields of stages 2
\* and 3, which are still there
C27_Witness ==
    /\ lastOp = "stage"
    /\ DOMAIN detectedElements =
          {"timeSignature", "clefs", "keySignature", "tempo", "noteCount", "measures"}
    /\ detectedElements.noteCount = 249
    /\ detectedElements.clefs = <<"Treble", "Bass">>

\* the multiplier of the mode, doubled: 1 for standard, 1.5 for enhanced, 2
\* for manual_assist
StatedMultiplierX2(mode) ==
    CASE mode = "standard" -> 2
      [] mode = "enhanced" -> 3
      [] mode = "manual_assist" -> 4

\* C28: in every mode each stage, the upload stage included, waits its nominal
\* duration times the mode's multiplier, and the delays of the ten stages add
\* up to the total estimate published at the start of the job.
C28_WaitsMatchEstimate ==
    \A job \in Pending :
        /\ 2 * job.left =
              Step(job.pc).duration * StatedMultiplierX2(job.options.processingMode)
        /\ SumWaited(Len(baseSteps), job.options) = estimatedTime

\* both conditions were drawn true by the call that ended last
BothDrawn(d) == d # Null /\ d[1].shouldFail /\ d[1].shouldPartialFail

\* C29: when the failure condition and the partial-failure condition are both
\* present for a job, the failure wins: the job ends with status error and an
\* error, produces no result and does not set partial_success.
C29_FailureWinsOverPartial ==
    [][ (lastOp' = "finalize" /\ BothDrawn(drawn')) =>
          /\ status' = "error"
          /\ error' # Null
          /\ UNCHANGED result
          /\ \E job \in Pending : Finishing(job) /\ jobs' = Return(job) ]_vars

\* a job for which both conditions were drawn has ended in error without a
\* result
C29_Witness ==
    /\ lastOp = "finalize"
    /\ BothDrawn(drawn)
    /\ status = "error"
    /\ result = Null
    /\ jobs = EmptyBag

\* detectedElements has both fields or neither
Together(f, g) == (f \in DOMAIN detectedElements) <=> (g \in DOMAIN detectedElements)

\* C30: fields written by the same stage are visible together: in every
\* reachable state, after any sequence of processFile and reset calls,
\* detectedElements has timeSignature iff clefs, keySignature iff tempo,
\* noteCount iff measures and dynamics iff articulations.
C30_StageFieldsTogether ==
    /\ Together("timeSignature", "clefs")
    /\ Together("keySignature", "tempo")
    /\ Together("noteCount", "measures")
    /\ Together("dynamics", "articulations")

\* reset was called after stage 2 of a pending call, whose stage 3 has since
\* written its two fields into the emptied record
C30_Witness ==
    /\ discarded
    /\ lastOp = "stage"
    /\ DOMAIN detectedElements = {"keySignature", "tempo"}

\* the tempo stated for a job's options: the preferred tempo when a positive
\* one is supplied, 120 when it is absent or 0
StatedTempo(options) ==
    IF "preferredTempo" \in DOMAIN options /\ options.preferredTempo > 0
    THEN options.preferredTempo
    ELSE 120

\* C31: the step that completes stage 3 sets the accumulated tempo to the
\* job's options.preferredTempo when a positive one is supplied and to 120
\* when it is absent or 0; the tempo published in detectedElements is
\* positive in every state.
C31_AccumulatedTempo ==
    /\ []("tempo" \in DOMAIN detectedElements => detectedElements.tempo > 0)
    /\ [][ StageStep =>
             \A job \in Pending : (job.pc = 3 /\ Due(job)) =>
                 detectedElements'.tempo = StatedTempo(job.options) ]_vars

\* a job submitted with preferredTempo 0 has completed stage 3 with the
\* default tempo
C31_Witness ==
    /\ lastOp = "stage"
    /\ status = "processing"
    /\ "preferredTempo" \in DOMAIN optionsState
    /\ optionsState.preferredTempo = 0
    /\ "tempo" \in DOMAIN detectedElements
    /\ detectedElements.tempo = 120

\* C32: MidiPlayer's currentTime stays within 0 .. duration * 1000 after any
\* sequence of playback ticks, seeks, skips forward and backward, resets,
\* speed changes and loop toggles.
C32_CurrentTimeInRange ==
    currentTime \in 0 .. duration * 1000

\* the position is at the upper end while the player plays at half speed
\* with loop on
C32_Witness ==
    /\ currentTime = duration * 1000
    /\ isPlaying
    /\ intervalActive
    /\ speed = 50
    /\ loop

\* the next tick would reach the end: currentTime + 100 * speed >= duration * 1000
ReachesEnd == currentTime + speed >= duration * 1000

\* what is stated of a tick that reaches the end
EndOfPlayback ==
    [][ (tick /\ ReachesEnd) =>
          IF loop
          THEN currentTime' = 0 /\ isPlaying'
          ELSE currentTime' = duration * 1000 /\ ~isPlaying' ]_vars

\* C33: a playback tick that would reach the end sets, with loop off,
\* currentTime to duration * 1000 and isPlaying to false, and with loop on
\* wraps currentTime to 0 and leaves isPlaying true; with loop off
\* uninterrupted playback eventually stops at the end with the tick timer
\* cleared.
C33_PlaybackEnds ==
    /\ EndOfPlayback
    /\ (isPlaying /\ ~loop) ~>
          (~isPlaying /\ ~intervalActive /\ currentTime = duration * 1000)

\* playback at the highest speed with loop off has stopped at the end and
\* its timer is cleared
C33_Witness ==
    /\ ~isPlaying
    /\ ~intervalActive
    /\ ~loop
    /\ speed = 200
    /\ currentTime = duration * 1000

\* what is stated of character c of the title: its lower-case form when that
\* is a letter a-z or a digit, and '-' otherwise
StatedCharacter(c) ==
    LET lower == charToLowerCase(c) IN
    IF lower \in AlphaNumeric THEN lower ELSE "-"

\* C34: result.fileName is derived from the recognized title and not from the
\* uploaded file's name: it is the lower-cased title with every character
\* outside [a-z0-9] replaced by '-', followed by ".mid", so that before the
\* extension it has only characters of [a-z0-9-].
C34_FileNameFromTitle ==
    result # Null =>
        LET name == result[1].fileName
            title == Characters(result[1].title)
        IN /\ Len(name) = Len(title) + 4
           /\ SubSeq(name, Len(title) + 1, Len(name)) = <<".", "m", "i", "d">>
           /\ \A k \in 1 .. Len(title) :
                 /\ name[k] = StatedCharacter(title[k])
                 /\ name[k] \in AlphaNumeric \cup {"-"}

\* the file BACH.png was given the name two-part-invention.mid: the two
\* capitals are lowered, the hyphen is kept and the space is replaced
C34_Witness ==
    /\ lastOp = "finalize"
    /\ result # Null
    /\ result[1].title = "Two-Part Invention"
    /\ result[1].fileName =
          <<"t", "w", "o", "-", "p", "a", "r", "t", "-",
            "i", "n", "v", "e", "n", "t", "i", "o", "n", ".", "m", "i", "d">>

====
